---- MODULE Spec2Model ----
(***************************************************************************)
(* Model of the vehicle-tracker backend (src/backend/server.js): the GPS   *)
(* trace pipeline behind GET /api/route/:date (strip invalid points,       *)
(* filterGPSNoise, smoothCoordinates, snapToRoads) and its pure stages.    *)
(*                                                                         *)
(* Units.  A coordinate is an integer number of 1e-5 degrees; the traces   *)
(* of the model lie within a few hundredths of a degree of (0,0), where    *)
(* the haversine distance of calculateDistance equals                      *)
(* R * (pi/180) * sqrt(dLat^2 + dLng^2) to well below a centimetre.        *)
(* Distances are integers in centimetres.  Raw coordinates are multiples   *)
(* of 10 units, so that the smoothing factor 0.3 is exact in integers.     *)
(* A timestamp is <<>> (the point has none) or <<t>>, t in whole seconds.  *)
(***************************************************************************)
EXTENDS Integers, Sequences, FiniteSets, TLC

VARIABLES
    pc,           \* position of the request handler
    query,        \* req.query after defaults: [snap, smooth]
    json,         \* JSON.parse(data).coordinates as read from the file
    coordinates,  \* the handler's local `coordinates`
    stages,       \* the stages that ran, in order, each with input and output
    snapArg,      \* snapToRoads' parameter `coordinates`
    coords,       \* snapToRoads' local `coords` (the decimated trace)
    fetchUrl,     \* the request sent to the map-matching service
    svc,          \* the external service as seen from the pending fetch
    reply,        \* what the service delivered: fetch's outcome and the body
    snapResult,   \* how the call of snapToRoads ended
    res,          \* the HTTP response written, if any
    fnPc,         \* position of the stand-alone function calls
    fnIn,         \* the trace passed to the function under test
    fnOrig,       \* that trace as it was before the call
    fnPass1,      \* filterGPSNoise(fnIn)
    fnPass2,      \* filterGPSNoise(filterGPSNoise(fnIn))
    fnSmooth      \* smoothCoordinates(fnIn)

vars == <<pc, query, json, coordinates, stages, snapArg, coords, fetchUrl, svc,
          reply, snapResult, res, fnPc, fnIn, fnOrig, fnPass1, fnPass2, fnSmooth>>

routeVars == <<pc, query, json, coordinates, stages, snapArg, coords, fetchUrl,
               svc, reply, snapResult, res>>

fnVars == <<fnPc, fnIn, fnOrig, fnPass1, fnPass2, fnSmooth>>

----------------------------------------------------------------------------
(* Bounds of the model *)

MaxLen == 3        \* longest trace passed to a stand-alone function call
MaxTs == 2         \* timestamps of the short traces are 1..MaxTs seconds
MaxRawLen == 2     \* longest short coordinates array in a route file
MaxLong == 210     \* longest recorded drive in a route file
MaxGeom == 4       \* most coordinates in one matching's geometry

(* Program constants *)

MaxCoords == 100        \* const maxCoords = 100
Radius == 50            \* radiuses=50;50;...
FactorTenths == 3       \* factor = 0.3
MaxSpeedKmh == 200      \* maxSpeedKmh = 200
CmSqPerUnitSq == 12364  \* (R * pi/180 * 1e-5 deg * 100 cm/m)^2, R = 6371000

----------------------------------------------------------------------------
(* Points and traces *)

NoTs == <<>>

HasTs(p) == p.timestamp # NoTs

Ts(p) == p.timestamp[1]

MkPoint(lat, lng, timestamp) == [lat |-> lat, lng |-> lng, timestamp |-> timestamp]

\* Positions of the short traces: 44 m, 56 m and 133 m from the origin.
Positions == {<<0, 0>>, <<40, 0>>, <<40, 30>>, <<120, 0>>}

Timestamps == {NoTs} \cup {<<t>> : t \in 1..MaxTs}

Points == {MkPoint(xy[1], xy[2], ts) : xy \in Positions, ts \in Timestamps}

TracesUpTo(S, n) == UNION {[1..k -> S] : k \in 0..n}

----------------------------------------------------------------------------
(* calculateDistance *)

RECURSIVE SqrtSearch(_, _, _)
\* the r in lo..hi-1 with r*r <= x < (r+1)*(r+1)
SqrtSearch(x, lo, hi) ==
    IF hi - lo <= 1 THEN lo
    ELSE LET mid == (lo + hi) \div 2
         IN  IF mid * mid <= x THEN SqrtSearch(x, mid, hi)
                               ELSE SqrtSearch(x, lo, mid)

ISqrt(x) == SqrtSearch(x, 0, 46340)

\* Distance in centimetres between two positions given in 1e-5 degrees.
CalculateDistance(lat1, lng1, lat2, lng2) ==
    LET dLat == lat2 - lat1
        dLng == lng2 - lng1
    IN  ISqrt(CmSqPerUnitSq * (dLat * dLat + dLng * dLng))

----------------------------------------------------------------------------
(* filterGPSNoise *)

\* timeDiff in seconds: <<d>>, or <<>> when the subtraction yields NaN
\* (new Date(undefined) is an invalid date).
TimeDiff(prev, curr) ==
    IF HasTs(curr)
    THEN IF HasTs(prev) THEN <<Ts(curr) - Ts(prev)>> ELSE <<>>
    ELSE <<1>>

\* speedKmh <= maxSpeedKmh, with speedKmh = timeDiff > 0 ?
\* (distance / 1000) / (timeDiff / 3600) : 0, cross-multiplied.
SpeedAllowed(distanceCm, timeDiff, maxSpeedKmh) ==
    IF timeDiff # <<>> /\ timeDiff[1] > 0
    THEN distanceCm * 36 <= maxSpeedKmh * 1000 * timeDiff[1]
    ELSE 0 <= maxSpeedKmh

\* The test of loop iteration i (from 1 in the code, i + 1 here): the speed
\* from coordinates[i - 1], the point just before it in the input, is allowed.
LoopKeeps(crds, i, maxSpeedKmh) ==
    LET prev == crds[i - 1]
        curr == crds[i]
        distance == CalculateDistance(prev.lat, prev.lng, curr.lat, curr.lng)
        timeDiff == TimeDiff(prev, curr)
    IN  SpeedAllowed(distance, timeDiff, maxSpeedKmh)

Indices(crds) == [i \in 1..Len(crds) |-> i]

\* The array `filtered` at the end of the loop, from its value before the loop:
\* every iteration reads only the input, so the pushes are those of the
\* iterations whose test holds, in order.
FilterLoop(crds, filtered, maxSpeedKmh) ==
    LET pushed == SelectSeq(Indices(crds),
                            LAMBDA i : i >= 2 /\ LoopKeeps(crds, i, maxSpeedKmh))
    IN  filtered \o [k \in 1..Len(pushed) |-> crds[pushed[k]]]

FilterGPSNoise_DropFirst(crds, maxSpeedKmh) ==
    IF Len(crds) < 2 THEN crds
    ELSE FilterLoop(crds, <<>>, maxSpeedKmh)

FilterGPSNoise(crds, maxSpeedKmh) ==
    IF Len(crds) < 2 THEN crds
    ELSE FilterLoop(crds, <<crds[1]>>, maxSpeedKmh)

----------------------------------------------------------------------------
(* smoothCoordinates *)

\* curr + factor * (prev + next - 2 * curr), factor in tenths
SmoothValue(prev, curr, next, factorTenths) ==
    curr + (factorTenths * (prev + next - 2 * curr)) \div 10

SmoothInterior(crds, i, factorTenths) ==
    MkPoint(SmoothValue(crds[i - 1].lat, crds[i].lat, crds[i + 1].lat, factorTenths),
            SmoothValue(crds[i - 1].lng, crds[i].lng, crds[i + 1].lng, factorTenths),
            crds[i].timestamp)

SmoothCoordinates_NoLast(crds, factorTenths) ==
    IF Len(crds) < 3 THEN crds
    ELSE [i \in 1..(Len(crds) - 1) |->
            IF i = 1 THEN crds[1] ELSE SmoothInterior(crds, i, factorTenths)]

SmoothCoordinates(crds, factorTenths) ==
    IF Len(crds) < 3 THEN crds
    ELSE [i \in 1..Len(crds) |->
            IF i = 1 THEN crds[1]
            ELSE IF i = Len(crds) THEN crds[Len(crds)]
            ELSE SmoothInterior(crds, i, factorTenths)]

----------------------------------------------------------------------------
(* Stand-alone calls of the pure stages *)

InitFn ==
    /\ fnPc = "input"
    /\ fnIn \in TracesUpTo(Points, MaxLen)
    /\ fnOrig = fnIn
    /\ fnPass1 = <<>>
    /\ fnPass2 = <<>>
    /\ fnSmooth = <<>>
    /\ pc = "idle"
    /\ query = [snap |-> "false", smooth |-> "false"]
    /\ json = <<>>
    /\ coordinates = <<>>
    /\ stages = <<>>
    /\ snapArg = <<>>
    /\ coords = <<>>
    /\ fetchUrl = [coordString |-> <<>>, radiuses |-> <<>>]
    /\ svc = "none"
    /\ reply = [settled |-> "none", status |-> 0,
                body |-> [parses |-> FALSE, hasMatchings |-> FALSE, matchings |-> <<>>]]
    /\ snapResult = "none"
    /\ res = [status |-> 0, error |-> "", coordinates |-> <<>>, metadata |-> <<>>]

\* filtered = filterGPSNoise(trace)
CallFilterGPSNoise ==
    /\ fnPc = "input"
    /\ fnPass1' = FilterGPSNoise(fnIn, MaxSpeedKmh)
    /\ fnPc' = "filtered"
    /\ UNCHANGED <<fnIn, fnOrig, fnPass2, fnSmooth>>
    /\ UNCHANGED routeVars

\* filterGPSNoise(filtered)
CallFilterGPSNoiseAgain ==
    /\ fnPc = "filtered"
    /\ fnPass2' = FilterGPSNoise(fnPass1, MaxSpeedKmh)
    /\ fnPc' = "refiltered"
    /\ UNCHANGED <<fnIn, fnOrig, fnPass1, fnSmooth>>
    /\ UNCHANGED routeVars

\* smoothed = smoothCoordinates(trace); the function only reads its argument
CallSmoothCoordinates ==
    /\ fnPc = "input"
    /\ fnSmooth' = SmoothCoordinates(fnIn, FactorTenths)
    /\ fnPc' = "smoothed"
    /\ UNCHANGED <<fnIn, fnOrig, fnPass1, fnPass2>>
    /\ UNCHANGED routeVars

NextFn ==
    \/ CallFilterGPSNoise
    \/ CallFilterGPSNoiseAgain
    \/ CallSmoothCoordinates

SpecFn == InitFn /\ [][NextFn]_vars

----------------------------------------------------------------------------
(* snapToRoads *)

Ceil(a, b) == (a + b - 1) \div b

\* coordinates.filter((_, index) => index % stride === 0), index from 0
FilterIndex(crds, stride) ==
    LET kept == SelectSeq(Indices(crds), LAMBDA i : (i - 1) % stride = 0)
    IN  [k \in 1..Len(kept) |-> crds[kept[k]]]

Decimate_FloorStride(crds, maxCoords) ==
    IF Len(crds) > maxCoords
    THEN FilterIndex(crds, Len(crds) \div maxCoords)
    ELSE crds

\* const coords = coordinates.length > maxCoords ? coordinates.filter(...) : coordinates
Decimate(crds, maxCoords) ==
    IF Len(crds) > maxCoords
    THEN FilterIndex(crds, Ceil(Len(crds), maxCoords))
    ELSE crds

\* coordString: the `lng,lat` pairs joined by ';'
CoordString(cs) == [i \in 1..Len(cs) |-> <<cs[i].lng, cs[i].lat>>]

\* radiuses: one '50' per point sent
Radiuses(cs) == [i \in 1..Len(cs) |-> Radius]

FetchUrl(cs) == [coordString |-> CoordString(cs), radiuses |-> Radiuses(cs)]

\* response.ok
ResponseOk(status) == status >= 200 /\ status <= 299

\* coordinates[i]?.timestamp, i from 0
TimestampAt(crds, i) ==
    IF i + 1 \in DOMAIN crds THEN crds[i + 1].timestamp ELSE NoTs

SnappedCoords_SameIndex(crds, geometry) ==
    [k \in 1..Len(geometry) |->
        MkPoint(geometry[k][2], geometry[k][1], TimestampAt(crds, k - 1))]

\* data.matchings[0].geometry.coordinates.map((coord, index) => ...)
SnappedCoords(crds, geometry) ==
    [k \in 1..Len(geometry) |->
        MkPoint(geometry[k][2], geometry[k][1],
                TimestampAt(crds, ((k - 1) * Len(crds)) \div Len(geometry)))]

\* The statements of the try block after `await response.json()`:
\* a value returned, or an exception thrown into the catch block.
AfterJson(crds, data) ==
    IF ~data.hasMatchings \/ Len(data.matchings) = 0
    THEN [thrown |-> FALSE, value |-> crds]
    ELSE IF ~data.matchings[1].hasGeometry
    THEN [thrown |-> TRUE, value |-> <<>>]
    ELSE [thrown |-> FALSE,
          value |-> SnappedCoords(crds, data.matchings[1].coordinates)]

CatchBlock_ReturnsCoords(crds, cs) == [rejected |-> FALSE, value |-> cs]

\* catch (error) { console.error(...); return coordinates; }
CatchBlock(crds, cs) == [rejected |-> FALSE, value |-> crds]

----------------------------------------------------------------------------
(* Route files and service replies *)

RawEntry(tag, p) == [tag |-> tag, p |-> p]

\* p && typeof p.lat === 'number' && typeof p.lng === 'number' && !isNaN(...)
IsValidEntry(e) == e.tag = "point"

StripInvalid(entries) ==
    LET kept == SelectSeq(entries, IsValidEntry)
    IN  [i \in 1..Len(kept) |-> kept[i].p]

RoutePoints == {p \in Points : p.timestamp \in {NoTs, <<1>>}}

ShortEntries ==
    {RawEntry("point", p) : p \in RoutePoints}
        \cup {RawEntry("null", MkPoint(0, 0, NoTs)),
              RawEntry("latNotNumber", MkPoint(0, 40, <<1>>))}

\* A recorded drive: a fix every second, about 16 m apart, zigzagging.
LongTrace(n) == [i \in 1..n |-> MkPoint(10 * i, 10 * (i % 2), <<i>>)]

LongEntries(n) == [i \in 1..n |-> RawEntry("point", LongTrace(n)[i])]

\* The same drive with a null entry in front and fix 5 thrown 330 m off.
GlitchEntries(n) ==
    <<RawEntry("null", MkPoint(0, 0, NoTs))>>
        \o [i \in 1..n |->
              IF i = 5 THEN RawEntry("point", MkPoint(10 * i + 300, 10 * (i % 2), <<i>>))
                       ELSE LongEntries(n)[i]]

RouteFile(kind, entries) == [kind |-> kind, entries |-> entries]

RouteFiles ==
    {RouteFile("unreadable", <<>>), RouteFile("notJson", <<>>),
     RouteFile("notArray", <<>>)}
        \cup {RouteFile("array", es) : es \in TracesUpTo(ShortEntries, MaxRawLen)}
        \cup {RouteFile("array", LongEntries(n)) : n \in (MaxCoords - 2)..MaxLong}
        \cup {RouteFile("array", GlitchEntries(n)) : n \in (MaxCoords - 2)..MaxLong}

QueryValues == {"absent", "true", "false"}

\* const { snap = 'false', smooth = 'false' } = req.query
QueryDefault(v) == IF v = "absent" THEN "false" ELSE v

\* Coordinate k of the geometry of matching j, as [lng, lat]
GeomCoord(j, k) == <<1000 * j + k, -(1000 * j + k)>>

Matching(j, m) ==
    [hasGeometry |-> TRUE, coordinates |-> [k \in 1..m |-> GeomCoord(j, k)]]

NoGeometryMatching == [hasGeometry |-> FALSE, coordinates |-> <<>>]

Body(parses, hasMatchings, matchings) ==
    [parses |-> parses, hasMatchings |-> hasMatchings, matchings |-> matchings]

Bodies ==
    {Body(FALSE, FALSE, <<>>), Body(TRUE, FALSE, <<>>), Body(TRUE, TRUE, <<>>),
     Body(TRUE, TRUE, <<NoGeometryMatching>>)}
        \cup {Body(TRUE, TRUE, <<Matching(1, m)>>) : m \in 0..MaxGeom}
        \cup {Body(TRUE, TRUE, <<Matching(1, m), Matching(2, 2)>>) : m \in 0..MaxGeom}

Statuses == {200, 429, 500}

NoReply == [settled |-> "none", status |-> 0, body |-> Body(FALSE, FALSE, <<>>)]

NoResponse == [status |-> 0, error |-> "", coordinates |-> <<>>, metadata |-> <<>>]

ErrorResponse(status, error) ==
    [status |-> status, error |-> error, coordinates |-> <<>>, metadata |-> <<>>]

\* res.json({ coordinates, metadata: { ... } })
RouteResponse(crds, entries, q) ==
    [status |-> 200, error |-> "", coordinates |-> crds,
     metadata |-> <<[originalCount |-> Len(entries),
                     processedCount |-> Len(crds),
                     roadSnapped |-> (q.snap = "true"),
                     smoothed |-> (q.smooth = "true")]>>]

Stage(name, input, output) == [stage |-> name, input |-> input, output |-> output]

SyncStages_SmoothsStripped(stripped, smooth) ==
    LET filtered == FilterGPSNoise(stripped, MaxSpeedKmh)
    IN  IF smooth = "true"
        THEN <<Stage("filter", stripped, filtered),
               Stage("smooth", stripped, SmoothCoordinates(stripped, FactorTenths))>>
        ELSE <<Stage("filter", stripped, filtered)>>

\* Step 1 and step 2 of the handler: coordinates = filterGPSNoise(coordinates);
\* if (smooth === 'true') coordinates = smoothCoordinates(coordinates)
SyncStages(stripped, smooth) ==
    LET filtered == FilterGPSNoise(stripped, MaxSpeedKmh)
    IN  IF smooth = "true"
        THEN <<Stage("filter", stripped, filtered),
               Stage("smooth", filtered, SmoothCoordinates(filtered, FactorTenths))>>
        ELSE <<Stage("filter", stripped, filtered)>>

----------------------------------------------------------------------------
(* The handler of GET /api/route/:date *)

Init ==
    /\ pc = "idle"
    /\ query = [snap |-> "false", smooth |-> "false"]
    /\ json = <<>>
    /\ coordinates = <<>>
    /\ stages = <<>>
    /\ snapArg = <<>>
    /\ coords = <<>>
    /\ fetchUrl = FetchUrl(<<>>)
    /\ svc = "none"
    /\ reply = NoReply
    /\ snapResult = "none"
    /\ res = NoResponse
    /\ fnPc = "idle"
    /\ fnIn = <<>>
    /\ fnOrig = <<>>
    /\ fnPass1 = <<>>
    /\ fnPass2 = <<>>
    /\ fnSmooth = <<>>

\* The request arrives: the query is read and fs.readFile is started.
RouteRequest ==
    /\ pc = "idle"
    /\ \E snap \in QueryValues, smooth \in QueryValues :
          query' = [snap |-> QueryDefault(snap), smooth |-> QueryDefault(smooth)]
    /\ pc' = "reading"
    /\ UNCHANGED <<json, coordinates, stages, snapArg, coords, fetchUrl, svc,
                   reply, snapResult, res>>
    /\ UNCHANGED fnVars

\* The end of the handler once snapToRoads has settled.
AfterSnap(outcome) ==
    IF outcome.rejected
    THEN /\ snapResult' = "rejected"
         /\ res' = ErrorResponse(500, "Invalid JSON format in file.")
         /\ UNCHANGED <<coordinates, stages>>
    ELSE /\ snapResult' = "returned"
         /\ coordinates' = outcome.value
         /\ stages' = [stages EXCEPT ![Len(stages)].output = outcome.value]
         /\ res' = RouteResponse(outcome.value, json, query)

\* The callback of fs.readFile, up to the response or to the await of fetch.
ReadFileCallback ==
    /\ pc = "reading"
    /\ \E file \in RouteFiles :
          LET stripped == StripInvalid(file.entries)
              sync == SyncStages(stripped, query.smooth)
              processed == sync[Len(sync)].output
          IN  IF file.kind = "unreadable"
              THEN /\ res' = ErrorResponse(500, "Failed to read route data file.")
                   /\ pc' = "done"
                   /\ UNCHANGED <<json, coordinates, stages, snapArg, coords,
                                  fetchUrl, svc, snapResult>>
              ELSE IF file.kind = "notJson"
              THEN /\ res' = ErrorResponse(500, "Invalid JSON format in file.")
                   /\ pc' = "done"
                   /\ UNCHANGED <<json, coordinates, stages, snapArg, coords,
                                  fetchUrl, svc, snapResult>>
              ELSE IF file.kind = "notArray"
              THEN /\ res' = ErrorResponse(400, "Invalid coordinates format")
                   /\ pc' = "done"
                   /\ UNCHANGED <<json, coordinates, stages, snapArg, coords,
                                  fetchUrl, svc, snapResult>>
              ELSE IF Len(stripped) = 0
              THEN /\ json' = file.entries
                   /\ coordinates' = stripped
                   /\ stages' = <<Stage("strip", file.entries, stripped)>>
                   /\ res' = [NoResponse EXCEPT !.status = 200]
                   /\ pc' = "done"
                   /\ UNCHANGED <<snapArg, coords, fetchUrl, svc, snapResult>>
              ELSE IF query.snap = "true"
              THEN /\ json' = file.entries
                   /\ coordinates' = processed
                   /\ stages' = <<Stage("strip", file.entries, stripped)>> \o sync
                                    \o <<Stage("snap", processed, <<>>)>>
                   /\ snapArg' = processed
                   /\ coords' = Decimate(processed, MaxCoords)
                   /\ fetchUrl' = FetchUrl(Decimate(processed, MaxCoords))
                   /\ svc' = "pending"
                   /\ snapResult' = "pending"
                   /\ pc' = "awaitFetch"
                   /\ UNCHANGED res
              ELSE /\ json' = file.entries
                   /\ coordinates' = processed
                   /\ stages' = <<Stage("strip", file.entries, stripped)>> \o sync
                   /\ res' = RouteResponse(processed, file.entries, query)
                   /\ pc' = "done"
                   /\ UNCHANGED <<snapArg, coords, fetchUrl, svc, snapResult>>
    /\ UNCHANGED <<query, reply>>
    /\ UNCHANGED fnVars

\* The service stops answering; fetch is called without a timeout or an abort
\* signal, so its promise stays pending.
ServiceSilent ==
    /\ pc = "awaitFetch"
    /\ svc = "pending"
    /\ svc' = "silent"
    /\ UNCHANGED <<pc, query, json, coordinates, stages, snapArg, coords,
                   fetchUrl, reply, snapResult, res>>
    /\ UNCHANGED fnVars

\* `await fetch(...)` settles: a network error, or a response with a status.
FetchSettles ==
    /\ pc = "awaitFetch"
    /\ svc = "pending"
    /\ \/ /\ reply' = [NoReply EXCEPT !.settled = "rejected"]
          /\ svc' = "failed"
          /\ AfterSnap(CatchBlock(snapArg, coords))
          /\ pc' = "done"
       \/ \E status \in Statuses :
             /\ reply' = [NoReply EXCEPT !.settled = "resolved", !.status = status]
             /\ IF ResponseOk(status)
                THEN /\ svc' = "sendingBody"
                     /\ pc' = "awaitJson"
                     /\ UNCHANGED <<coordinates, stages, snapResult, res>>
                ELSE /\ svc' = "answered"
                     /\ AfterSnap(CatchBlock(snapArg, coords))
                     /\ pc' = "done"
    /\ UNCHANGED <<query, json, snapArg, coords, fetchUrl>>
    /\ UNCHANGED fnVars

\* `await response.json()` settles, and snapToRoads and the handler finish.
JsonSettles ==
    /\ pc = "awaitJson"
    /\ \E data \in Bodies :
          /\ reply' = [reply EXCEPT !.body = data]
          /\ IF ~data.parses \/ AfterJson(snapArg, data).thrown
             THEN AfterSnap(CatchBlock(snapArg, coords))
             ELSE AfterSnap([rejected |-> FALSE,
                             value |-> AfterJson(snapArg, data).value])
    /\ svc' = "answered"
    /\ pc' = "done"
    /\ UNCHANGED <<query, json, snapArg, coords, fetchUrl>>
    /\ UNCHANGED fnVars

Next ==
    \/ RouteRequest
    \/ ReadFileCallback
    \/ ServiceSilent
    \/ FetchSettles
    \/ JsonSettles

Spec == Init /\ [][Next]_vars

\* The file read completes and a service that has not gone silent answers.
FairSpec ==
    /\ Spec
    /\ WF_vars(ReadFileCallback)
    /\ WF_vars(FetchSettles)
    /\ WF_vars(JsonSettles)

----------------------------------------------------------------------------
(* Properties of the pure stages, checked under SpecFn *)

RECURSIVE IsSubseqFrom(_, _, _, _)
\* s[i..] can be obtained from t[j..] by deleting elements
IsSubseqFrom(s, t, i, j) ==
    IF i > Len(s) THEN TRUE
    ELSE IF j > Len(t) THEN FALSE
    ELSE IF s[i] = t[j] THEN IsSubseqFrom(s, t, i + 1, j + 1)
    ELSE IsSubseqFrom(s, t, i, j + 1)

\* The filter as section 4.2 words it: the reference is the last retained point.
RECURSIVE LastRetainedLoop(_, _, _, _)
LastRetainedLoop(crds, filtered, i, maxSpeedKmh) ==
    IF i > Len(crds) THEN filtered
    ELSE LET ref == filtered[Len(filtered)]
             curr == crds[i]
             distance == CalculateDistance(ref.lat, ref.lng, curr.lat, curr.lng)
         IN  IF SpeedAllowed(distance, TimeDiff(ref, curr), maxSpeedKmh)
             THEN LastRetainedLoop(crds, Append(filtered, curr), i + 1, maxSpeedKmh)
             ELSE LastRetainedLoop(crds, filtered, i + 1, maxSpeedKmh)

FilterLastRetained(crds, maxSpeedKmh) ==
    IF Len(crds) < 2 THEN crds
    ELSE LastRetainedLoop(crds, <<crds[1]>>, 2, maxSpeedKmh)

\* C1: filterNoise is idempotent: a second pass over the output of the first
\* pass returns that output point for point.
C1_FilterIdempotent ==
    fnPc = "refiltered" => fnPass2 = fnPass1

\* C2: every point after the first is judged against the last retained point:
\* the output is what the filter yields when a discarded point is never the
\* reference of a later comparison.
C2_JudgedAgainstLastRetained ==
    fnPc = "filtered" => fnPass1 = FilterLastRetained(fnIn, MaxSpeedKmh)

\* The point retained last before point i is reached, and whether point i is kept.
RetainedBefore(crds, i) ==
    LET sofar == FilterGPSNoise(SubSeq(crds, 1, i - 1), MaxSpeedKmh)
    IN  sofar[Len(sofar)]

IsKept(crds, i) ==
    Len(FilterGPSNoise(SubSeq(crds, 1, i), MaxSpeedKmh))
        > Len(FilterGPSNoise(SubSeq(crds, 1, i - 1), MaxSpeedKmh))

NeedsFallback(ref, curr) ==
    \/ ~HasTs(ref)
    \/ ~HasTs(curr)
    \/ Ts(curr) - Ts(ref) <= 0

\* C3: when the elapsed time from the reference point is non-positive or one of
\* the two timestamps is missing, the speed is computed over exactly 1 second:
\* the point is kept iff it is no farther than maxSpeedKmh allows in 1 second.
C3_FallbackIsOneSecond ==
    fnPc = "filtered" =>
        \A i \in 2..Len(fnIn) :
            LET ref == RetainedBefore(fnIn, i)
                curr == fnIn[i]
                distance == CalculateDistance(ref.lat, ref.lng, curr.lat, curr.lng)
            IN  NeedsFallback(ref, curr) =>
                    (IsKept(fnIn, i) <=> distance * 36 <= MaxSpeedKmh * 1000 * 1)

\* C9: filterNoise returns a subsequence of its input in the original order,
\* never longer than the input, starting with the input's first point, and a
\* trace of fewer than 2 points is returned unchanged.
C9_FilterIsSubsequence ==
    fnPc = "filtered" =>
        /\ IsSubseqFrom(fnPass1, fnIn, 1, 1)
        /\ Len(fnPass1) <= Len(fnIn)
        /\ Len(fnIn) >= 1 => (Len(fnPass1) >= 1 /\ fnPass1[1] = fnIn[1])
        /\ Len(fnIn) < 2 => fnPass1 = fnIn

\* a three-point trace whose middle point was discarded and whose last was kept
C9_Witness ==
    /\ fnPc = "filtered"
    /\ Len(fnIn) = 3
    /\ fnPass1 = <<fnIn[1], fnIn[3]>>
    /\ fnIn[2] # fnIn[3]
    /\ fnIn[2] # fnIn[1]

\* C10: smooth returns a trace of the same length with the input's first and
\* last points, interior points keep their timestamps, a trace of fewer than
\* 3 points is returned unchanged, and the input trace is not mutated.
C10_SmoothKeepsShape ==
    fnPc = "smoothed" =>
        /\ Len(fnSmooth) = Len(fnIn)
        /\ Len(fnIn) >= 1 =>
              /\ fnSmooth[1] = fnIn[1]
              /\ fnSmooth[Len(fnIn)] = fnIn[Len(fnIn)]
        /\ \A i \in 2..(Len(fnIn) - 1) : fnSmooth[i].timestamp = fnIn[i].timestamp
        /\ Len(fnIn) < 3 => fnSmooth = fnIn
        /\ fnIn = fnOrig

\* a three-point trace whose timestamped middle point was moved by the smoother
C10_Witness ==
    /\ fnPc = "smoothed"
    /\ Len(fnIn) = 3
    /\ HasTs(fnIn[2])
    /\ fnSmooth[2].lat # fnIn[2].lat

----------------------------------------------------------------------------
(* Properties of the request handler, checked under Spec and FairSpec *)

StageNames == [i \in 1..Len(stages) |-> stages[i].stage]

SnapRan == snapResult # "none"

SnapSettled == pc = "done" /\ snapResult \in {"returned", "rejected"}

\* The service delivered a usable first matching.
Matched ==
    /\ reply.settled = "resolved"
    /\ reply.status = 200
    /\ reply.body.parses
    /\ reply.body.hasMatchings
    /\ Len(reply.body.matchings) > 0
    /\ reply.body.matchings[1].hasGeometry

\* C4: when snapToRoad obtains no match (non-success status, no or zero
\* matchings, malformed body, network error) it returns its pre-decimation
\* input trace, same points in the same order, and never throws or rejects.
C4_FallbackReturnsInput ==
    (SnapSettled /\ ~Matched) =>
        /\ snapResult = "returned"
        /\ coordinates = snapArg
        /\ stages[Len(stages)].output = stages[Len(stages)].input
        /\ res.status = 200
        /\ res.coordinates = snapArg

\* a trace longer than the service limit came back whole after an HTTP error
C4_Witness ==
    /\ SnapSettled
    /\ reply.settled = "resolved"
    /\ reply.status = 500
    /\ Len(snapArg) > MaxCoords
    /\ Len(coords) < Len(snapArg)
    /\ coordinates = snapArg

\* C5: every GET /route request eventually receives a response, even when the
\* map-matching service never answers.
C5_EveryRequestAnswered ==
    (pc = "reading") ~> (res.status # 0)

\* C6: the stages run in the order strip, Noise Filter, Smoother, Road Snapper;
\* the Noise Filter runs on every non-empty stripped trace, the Smoother runs
\* iff smooth is true, on the Noise Filter's output, and the Road Snapper runs
\* iff snap is true, on the Smoother's output if it ran, else on the Noise
\* Filter's output.
C6_StagesInOrder ==
    (pc \in {"awaitFetch", "awaitJson", "done"} /\ Len(stages) > 0) =>
        LET stripped == stages[1].output
            expected ==
                IF Len(stripped) = 0 THEN <<"strip">>
                ELSE <<"strip", "filter">>
                        \o (IF query.smooth = "true" THEN <<"smooth">> ELSE <<>>)
                        \o (IF query.snap = "true" THEN <<"snap">> ELSE <<>>)
        IN  /\ StageNames = expected
            /\ stages[1].input = json
            /\ stripped = StripInvalid(json)
            /\ \A i \in 2..Len(stages) : stages[i].input = stages[i - 1].output
            /\ \A i \in 2..Len(stages) :
                  /\ stages[i].stage = "filter" =>
                        stages[i].output = FilterGPSNoise(stages[i].input, MaxSpeedKmh)
                  /\ stages[i].stage = "smooth" =>
                        stages[i].output = SmoothCoordinates(stages[i].input, FactorTenths)
                  /\ stages[i].stage = "snap" => stages[i].input = snapArg

\* all four stages ran, the filter removed a point and the smoother moved one
C6_Witness ==
    /\ pc = "done"
    /\ StageNames = <<"strip", "filter", "smooth", "snap">>
    /\ stages[3].output # stages[3].input
    /\ Len(stages[2].output) < Len(stages[2].input)
    /\ Len(stages[1].output) < Len(stages[1].input)

\* The points at input indices 0, s, 2s, ... (from 0), s = ceil(n / 100)
StridePoints(crds) ==
    LET n == Len(crds)
        s == Ceil(n, MaxCoords)
    IN  [k \in 1..Ceil(n, s) |-> crds[(k - 1) * s + 1]]

\* C7: the trace sent to the service never has more than 100 points and
\* contains input point 0: an input of at most 100 points is sent whole, a
\* longer one is reduced to the points at indices 0, s, 2s, ..., s = ceil(n/100).
C7_SentTraceDecimated ==
    SnapRan =>
        LET n == Len(snapArg)
        IN  /\ Len(fetchUrl.coordString) <= MaxCoords
            /\ Len(fetchUrl.coordString) >= 1
            /\ fetchUrl.coordString[1] = <<snapArg[1].lng, snapArg[1].lat>>
            /\ n <= MaxCoords => fetchUrl.coordString = CoordString(snapArg)
            /\ n > MaxCoords =>
                  fetchUrl.coordString = CoordString(StridePoints(snapArg))
            /\ Len(fetchUrl.radiuses) = Len(fetchUrl.coordString)

\* a trace of more than 200 points was sent with a stride of 3
C7_Witness ==
    /\ pc = "awaitFetch"
    /\ Len(snapArg) > 2 * MaxCoords
    /\ Len(fetchUrl.coordString) < MaxCoords
    /\ fetchUrl.coordString[2] = <<snapArg[4].lng, snapArg[4].lat>>

\* C8: with at least one matching, snapToRoad returns one point per coordinate
\* of the first matching's geometry, in order, and output point k carries the
\* timestamp of input point floor(k * n / m), an index within 0..n-1 that
\* never decreases with k.
C8_SnappedTimestamps ==
    (SnapSettled /\ Matched) =>
        LET geometry == reply.body.matchings[1].coordinates
            n == Len(snapArg)
            m == Len(geometry)
        IN  /\ snapResult = "returned"
            /\ Len(coordinates) = m
            /\ \A k \in 0..(m - 1) :
                  LET idx == (k * n) \div m
                  IN  /\ coordinates[k + 1].lng = geometry[k + 1][1]
                      /\ coordinates[k + 1].lat = geometry[k + 1][2]
                      /\ idx \in 0..(n - 1)
                      /\ coordinates[k + 1].timestamp = snapArg[idx + 1].timestamp
                      /\ k > 0 => ((k - 1) * n) \div m <= idx

\* a decimated trace was snapped to a geometry of several points, the second
\* of two matchings being ignored
C8_Witness ==
    /\ SnapSettled
    /\ Matched
    /\ Len(reply.body.matchings) = 2
    /\ Len(snapArg) > MaxCoords
    /\ Len(coordinates) = 3
    /\ coordinates[3].timestamp = snapArg[(2 * Len(snapArg)) \div 3 + 1].timestamp
    /\ coordinates[3].timestamp # coordinates[2].timestamp

====
